---------------------------- MODULE Spec2Model ----------------------------
(***************************************************************************)
(* Model of the uwmcp endpoint registry and request dispatcher             *)
(* (src/schemas.py, src/uwmcp/tools/generic.py, src/client.py).            *)
(*                                                                         *)
(* Python strings are TLA+ strings (Len, \o and SubSeq act on them);       *)
(* a Python dict is a sequence of <<key, value>> pairs in insertion order; *)
(* None / a missing value is the empty sequence and Some(v) is <<v>>.      *)
(***************************************************************************)
EXTENDS Integers, Sequences, FiniteSets, TLC

(***************************************************************************)
(* Python str primitives                                                   *)
(***************************************************************************)

\* The characters the model uses, in code-point order.
Alphabet == " #$./0123456789ABCDEFGHIJKLMNOPQRSTUVWXYZ_abcdefghijklmnopqrstuvwxyz{}"

UpperChars == "ABCDEFGHIJKLMNOPQRSTUVWXYZ"

LowerChars == "abcdefghijklmnopqrstuvwxyz"

Ch(s, i) == SubSeq(s, i, i)

OrdTable == [c \in {Ch(Alphabet, i) : i \in 1..Len(Alphabet)} |->
                CHOOSE i \in 1..Len(Alphabet) : Ch(Alphabet, i) = c]

\* ord(c)
Ord(c) == OrdTable[c]

\* str.__lt__: lexicographic order by code point.
RECURSIVE StrLessFrom(_, _, _)
StrLessFrom(a, b, i) ==
    IF i > Len(a) THEN i <= Len(b)
    ELSE IF i > Len(b) THEN FALSE
    ELSE IF Ch(a, i) = Ch(b, i) THEN StrLessFrom(a, b, i + 1)
    ELSE Ord(Ch(a, i)) < Ord(Ch(b, i))

StrLess(a, b) == StrLessFrom(a, b, 1)

StartsWith(s, p) == Len(p) <= Len(s) /\ SubSeq(s, 1, Len(p)) = p

EndsWith(s, p) == Len(p) <= Len(s) /\ SubSeq(s, Len(s) - Len(p) + 1, Len(s)) = p

\* `sub in s`
Contains(s, sub) ==
    \E i \in 1..(Len(s) - Len(sub) + 1) : SubSeq(s, i, i + Len(sub) - 1) = sub

\* str.lstrip(chars) / str.rstrip(chars) / str.strip(chars); chars is a set.
RECURSIVE LStrip(_, _)
LStrip(s, chars) ==
    IF Len(s) > 0 /\ Ch(s, 1) \in chars
    THEN LStrip(SubSeq(s, 2, Len(s)), chars) ELSE s

RECURSIVE RStrip(_, _)
RStrip(s, chars) ==
    IF Len(s) > 0 /\ Ch(s, Len(s)) \in chars
    THEN RStrip(SubSeq(s, 1, Len(s) - 1), chars) ELSE s

Strip(s, chars) == RStrip(LStrip(s, chars), chars)

Whitespace == {" "}

\* str.split(sep) for a one-character separator: the pieces, empty ones kept.
RECURSIVE SplitFrom(_, _, _, _)
SplitFrom(s, sep, i, cur) ==
    IF i > Len(s) THEN <<cur>>
    ELSE IF Ch(s, i) = sep THEN <<cur>> \o SplitFrom(s, sep, i + 1, "")
    ELSE SplitFrom(s, sep, i + 1, cur \o Ch(s, i))

Split(s, sep) == SplitFrom(s, sep, 1, "")

\* str.replace(old, new): every non-overlapping occurrence, left to right;
\* the replacement text is not scanned again.
RECURSIVE ReplaceFrom(_, _, _, _)
ReplaceFrom(s, old, new, i) ==
    IF i > Len(s) THEN ""
    ELSE IF i + Len(old) - 1 <= Len(s) /\ SubSeq(s, i, i + Len(old) - 1) = old
         THEN new \o ReplaceFrom(s, old, new, i + Len(old))
         ELSE Ch(s, i) \o ReplaceFrom(s, old, new, i + 1)

Replace(s, old, new) == IF old = "" THEN s ELSE ReplaceFrom(s, old, new, 1)

LowerCh(c) ==
    IF \E i \in 1..Len(UpperChars) : Ch(UpperChars, i) = c
    THEN Ch(LowerChars, CHOOSE i \in 1..Len(UpperChars) : Ch(UpperChars, i) = c)
    ELSE c

\* str.lower()
RECURSIVE Lower(_)
Lower(s) == IF s = "" THEN "" ELSE LowerCh(Ch(s, 1)) \o Lower(SubSeq(s, 2, Len(s)))

\* str(n) for a non-negative int.
RECURSIVE IntStr(_)
IntStr(n) ==
    IF n < 10 THEN Ch("0123456789", n + 1)
    ELSE IntStr(n \div 10) \o Ch("0123456789", (n % 10) + 1)

(***************************************************************************)
(* Python list / dict primitives                                           *)
(***************************************************************************)

Range(f) == {f[i] : i \in DOMAIN f}

\* sorted(seq) of strings (SortSeq is the TLC module's sort).
SortedStrs(seq) == SortSeq(seq, StrLess)

\* list(set): the elements in some order; every use sorts the result.
RECURSIVE SetToSeq(_)
SetToSeq(S) ==
    IF S = {} THEN <<>>
    ELSE LET x == CHOOSE y \in S : TRUE IN <<x>> \o SetToSeq(S \ {x})

Keys(d) == [i \in DOMAIN d |-> d[i][1]]

KeySet(d) == {d[i][1] : i \in DOMAIN d}

HasKey(d, k) == k \in KeySet(d)

\* d[k], for a key that is present.
Get(d, k) == d[CHOOSE i \in DOMAIN d : d[i][1] = k][2]

\* d[k] = v: an existing key keeps its position, a new key goes last.
Put(d, k, v) ==
    IF HasKey(d, k)
    THEN [i \in DOMAIN d |-> IF d[i][1] = k THEN <<k, v>> ELSE d[i]]
    ELSE Append(d, <<k, v>>)

\* d.setdefault(k, v)
SetDefault(d, k, v) == IF HasKey(d, k) THEN d ELSE Append(d, <<k, v>>)

(***************************************************************************)
(* The Spec Document: the tree yaml.safe_load returns.  A node is a        *)
(* mapping (k = "dict", d = its pairs in document order), a sequence       *)
(* (k = "list"), a scalar (k = "str", "int", "bool") or None.              *)
(***************************************************************************)

D(pairs) == [k |-> "dict", d |-> pairs]

L(elems) == [k |-> "list", l |-> elems]

StrVal(s) == [k |-> "str", s |-> s]

IntVal(n) == [k |-> "int", n |-> n]

BoolVal(b) == [k |-> "bool", b |-> b]

NoneVal == [k |-> "none"]

EmptyDict == D(<<>>)

\* str(v)
Str(v) ==
    CASE v.k = "int" -> IntStr(v.n)
      [] v.k = "str" -> v.s
      [] v.k = "bool" -> (IF v.b THEN "True" ELSE "False")
      [] OTHER -> "None"

\* bool(v): None, False, 0, "", [] and {} are falsy.
Truthy(v) ==
    CASE v.k = "none" -> FALSE
      [] v.k = "bool" -> v.b
      [] v.k = "int" -> v.n # 0
      [] v.k = "str" -> v.s # ""
      [] v.k = "list" -> v.l # <<>>
      [] v.k = "dict" -> v.d # <<>>

IsDict(v) == v.k = "dict"

\* `key in v` for a mapping v.
In(key, v) == IsDict(v) /\ HasKey(v.d, key)

\* v.get(key) / v.get(key, default) for a mapping v.
GetOr(v, key, default) == IF HasKey(v.d, key) THEN Get(v.d, key) ELSE default

\* x or y
Or(x, y) == IF Truthy(x) THEN x ELSE y

\* resolve_ref: [raised, value]; value is NoneVal for None.  `node.get`
\* on a node that is not a mapping raises AttributeError.
RECURSIVE WalkRef(_, _)
WalkRef(node, parts) ==
    IF parts = <<>> THEN [raised |-> FALSE, value |-> node]
    ELSE IF ~IsDict(node) THEN [raised |-> TRUE, value |-> NoneVal]
    ELSE LET next == GetOr(node, Head(parts), NoneVal)
         IN  IF next = NoneVal THEN [raised |-> FALSE, value |-> NoneVal]
             ELSE WalkRef(next, Tail(parts))

resolve_ref(spec, ref) ==
    IF ref.k # "str" \/ ~StartsWith(ref.s, "#/")
    THEN [raised |-> FALSE, value |-> NoneVal]
    ELSE WalkRef(spec, Split(SubSeq(ref.s, 3, Len(ref.s)), "/"))

(***************************************************************************)
(* _simplify_schema, one step at a time.  A configuration holds the call   *)
(* stack (innermost frame last), the value the last return delivered, and  *)
(* the log of resolve_ref calls.  A frame is at "entry" (about to run the  *)
(* body), or suspended in the call of line 98 or of line 107.              *)
(***************************************************************************)

SummaryKeys == <<"type", "format", "enum", "title">>

\* {k: node[k] for k in ("type", "format", "enum", "title") if k in node}
RECURSIVE PickKeys(_, _)
PickKeys(node, keys) ==
    IF keys = <<>> THEN <<>>
    ELSE (IF In(Head(keys), node)
          THEN << <<Head(keys), Get(node.d, Head(keys))>> >> ELSE <<>>)
         \o PickKeys(node, Tail(keys))

Frame(schema, via) == [schema |-> schema, at |-> "entry", summary |-> <<>>, via |-> via]

SimplifyStart(schema) ==
    [input |-> schema, stack |-> <<Frame(schema, <<>>)>>, ret |-> <<>>, status |-> "running", calls |-> <<>>]

\* `return v` from the innermost frame.
SimplifyReturn(c, v) ==
    [c EXCEPT !.stack = SubSeq(c.stack, 1, Len(c.stack) - 1),
              !.ret = <<v>>,
              !.status = IF Len(c.stack) = 1 THEN "done" ELSE "running"]

\* The frames the interpreter allows before it raises RecursionError
\* (sys.getrecursionlimit(), scaled down).
RecursionLimit == 8

\* A resolve_ref call at `line`, followed by the recursive call on
\* `resolved or {}`; the caller stays suspended at `at`.  The call that
\* would exceed the recursion limit raises RecursionError ("overflow").
SimplifyRecurse(spec, c, ref, line, at, summary) ==
    LET f == c.stack[Len(c.stack)]
        r == resolve_ref(spec, ref)
        logged == Append(c.calls, [line |-> line, via |-> f.via])
    IN  IF r.raised
        THEN [c EXCEPT !.status = "raised", !.calls = logged]
        ELSE IF Len(c.stack) >= RecursionLimit
        THEN [c EXCEPT !.status = "overflow", !.calls = logged]
        ELSE [c EXCEPT !.stack = Append(
                           [c.stack EXCEPT ![Len(c.stack)] =
                               [f EXCEPT !.at = at, !.summary = summary]],
                           Frame(Or(r.value, EmptyDict), Append(f.via, line + 1))),
                       !.ret = <<>>,
                       !.calls = logged]

SimplifyStep(spec, c) ==
    LET f == c.stack[Len(c.stack)]
        schema == f.schema
    IN  CASE f.at = "line98" -> SimplifyReturn(c, c.ret[1])
          [] f.at = "line107" ->
                SimplifyReturn(c, D(Put(f.summary, "items", c.ret[1])))
          [] f.at = "entry" ->
                IF ~IsDict(schema) THEN SimplifyReturn(c, schema)
                ELSE IF In("$ref", schema)
                THEN SimplifyRecurse(spec, c, Get(schema.d, "$ref"), 97, "line98", <<>>)
                ELSE LET summary == PickKeys(schema, SummaryKeys)
                     IN  IF ~In("items", schema) THEN SimplifyReturn(c, D(summary))
                         ELSE LET items == Get(schema.d, "items")
                              IN  IF In("$ref", items)
                                  THEN SimplifyRecurse(spec, c, Get(items.d, "$ref"),
                                                       106, "line107", summary)
                                  ELSE IF IsDict(items)
                                  THEN SimplifyReturn(c, D(Put(summary, "items",
                                           D(PickKeys(items, SummaryKeys)))))
                                  ELSE SimplifyReturn(c, D(Put(summary, "items", items)))

\* _simplify_schema as a function: the steps run to the return (or the raise).
RECURSIVE SimplifyRun(_, _)
SimplifyRun(spec, c) ==
    IF c.status # "running" THEN c ELSE SimplifyRun(spec, SimplifyStep(spec, c))

_simplify_schema(spec, schema) == SimplifyRun(spec, SimplifyStart(schema))

(***************************************************************************)
(* The shallow registry (src/schemas.py)                                   *)
(***************************************************************************)

\* re.findall(r"\{([^/}]+)\}", s): at a "{", the longest run of characters
\* other than "/" and "}" must be non-empty and be followed by "}"; the scan
\* goes on after a match, and one character further otherwise.
RECURSIVE RunEnd(_, _)
RunEnd(s, j) ==
    IF j <= Len(s) /\ Ch(s, j) \notin {"/", "}"} THEN RunEnd(s, j + 1) ELSE j

RECURSIVE FindAllFrom(_, _)
FindAllFrom(s, i) ==
    IF i > Len(s) THEN <<>>
    ELSE IF Ch(s, i) # "{" THEN FindAllFrom(s, i + 1)
    ELSE LET e == RunEnd(s, i + 1)
         IN  IF e > i + 1 /\ e <= Len(s) /\ Ch(s, e) = "}"
             THEN <<SubSeq(s, i + 1, e - 1)>> \o FindAllFrom(s, e + 1)
             ELSE FindAllFrom(s, i + 1)

\* _path_param_names keeping only the first placeholder.
PathParamNamesFirstOnly(path_template) ==
    LET found == FindAllFrom(path_template, 1)
    IN  IF found = <<>> THEN {} ELSE {found[1]}

_path_param_names(path_template) == Range(FindAllFrom(path_template, 1))

\* The key under which a YAML integer key n is kept.
IntKey(n) == "int:" \o IntStr(n)

list_paths(spec) == Keys(Or(GetOr(spec, "paths", EmptyDict), EmptyDict).d)

get_operation(spec, path) ==
    LET paths == Or(GetOr(spec, "paths", EmptyDict), EmptyDict)
        item == Or(GetOr(paths, path, NoneVal), EmptyDict)
    IN  Or(GetOr(item, "get", EmptyDict), EmptyDict)

\* One parameter of get_parameters_shallow's loop: <<simple>>, or <<>> when
\* the parameter is skipped.
ParameterShallow(spec, p0) ==
    LET p == IF In("$ref", p0)
             THEN Or(resolve_ref(spec, Get(p0.d, "$ref")).value, EmptyDict)
             ELSE p0
        simple == << <<"name", GetOr(p, "name", NoneVal)>>,
                     <<"in", GetOr(p, "in", NoneVal)>>,
                     <<"required", GetOr(p, "required", BoolVal(FALSE))>> >>
    IN  IF ~IsDict(p) THEN <<>>
        ELSE IF In("schema", p)
        THEN <<D(Append(simple,
                   <<"schema", _simplify_schema(spec, Get(p.d, "schema")).ret[1]>>))>>
        ELSE <<D(simple)>>

RECURSIVE ParametersShallowFrom(_, _)
ParametersShallowFrom(spec, params) ==
    IF params = <<>> THEN <<>>
    ELSE ParameterShallow(spec, Head(params)) \o ParametersShallowFrom(spec, Tail(params))

get_parameters_shallow(spec, op) ==
    ParametersShallowFrom(spec, Or(GetOr(op, "parameters", L(<<>>)), L(<<>>)).l)

\* None is NoneVal.
extract_response_schema_shallow(spec, op) ==
    LET responses == Or(GetOr(op, "responses", EmptyDict), EmptyDict)
        ok == Or(Or(GetOr(responses, "200", NoneVal),
                    GetOr(responses, IntKey(200), NoneVal)),
                 GetOr(responses, "default", NoneVal))
        content == Or(GetOr(ok, "content", EmptyDict), EmptyDict)
        app_json == Or(GetOr(content, "application/json", NoneVal), EmptyDict)
        schema == Or(GetOr(app_json, "schema", NoneVal), EmptyDict)
    IN  IF ~Truthy(ok) THEN NoneVal
        ELSE IF Truthy(schema) THEN _simplify_schema(spec, schema).ret[1]
        ELSE NoneVal

\* [p.get("name") for p in parameters if p.get("in") == "query" and p.get("name")]
RECURSIVE QueryNames(_)
QueryNames(parameters) ==
    IF parameters = <<>> THEN <<>>
    ELSE LET p == Head(parameters)
         IN  (IF GetOr(p, "in", NoneVal) = StrVal("query") /\ Truthy(GetOr(p, "name", NoneVal))
              THEN <<GetOr(p, "name", NoneVal).s>> ELSE <<>>)
             \o QueryNames(Tail(parameters))

RegistryEntry(spec, path) ==
    LET op == get_operation(spec, path)
        parameters == get_parameters_shallow(spec, op)
    IN  [summary |-> Or(Or(GetOr(op, "summary", NoneVal), GetOr(op, "description", NoneVal)),
                        StrVal("")),
         tags |-> Or(GetOr(op, "tags", NoneVal), L(<<>>)),
         parameters |-> parameters,
         pathParamNames |-> SortedStrs(SetToSeq(_path_param_names(path))),
         queryParamNames |-> SortedStrs(QueryNames(parameters)),
         responseSchema |-> extract_response_schema_shallow(spec, op)]

\* The registry: <<path, entry>> pairs in document order, GET operations only.
RECURSIVE BuildFrom(_, _)
BuildFrom(spec, paths) ==
    IF paths = <<>> THEN <<>>
    ELSE (IF Truthy(get_operation(spec, Head(paths)))
          THEN << <<Head(paths), RegistryEntry(spec, Head(paths))>> >> ELSE <<>>)
         \o BuildFrom(spec, Tail(paths))

build_registry_shallow(spec) == BuildFrom(spec, list_paths(spec))

(***************************************************************************)
(* The Path Matcher and the dispatcher's helpers                           *)
(* (src/uwmcp/tools/generic.py)                                            *)
(***************************************************************************)

NonEmpty(seg) == seg # ""

IsBraced(seg) == StartsWith(seg, "{") /\ EndsWith(seg, "}")

split_segments(p) ==
    LET stripped == Strip(p, Whitespace)
        slashed == IF StartsWith(stripped, "/") THEN stripped ELSE "/" \o stripped
    IN  IF stripped = "" THEN <<>>
        ELSE SelectSeq(Split(RStrip(slashed, {"/"}), "/"), NonEmpty)

\* The pairwise walk of lines 156-170 from segment i on: ok is FALSE at the
\* first disqualifying segment.
RECURSIVE WalkSegments(_, _, _, _, _)
WalkSegments(tsegs, csegs, i, inferred, static_matches) ==
    IF i > Len(tsegs)
    THEN [ok |-> TRUE, inferred |-> inferred, static_matches |-> static_matches]
    ELSE IF IsBraced(tsegs[i])
    THEN LET pname == SubSeq(tsegs[i], 2, Len(tsegs[i]) - 1)
         IN  IF pname = ""
             THEN [ok |-> FALSE, inferred |-> inferred, static_matches |-> static_matches]
             ELSE WalkSegments(tsegs, csegs, i + 1, Put(inferred, pname, csegs[i]),
                               static_matches)
    ELSE IF tsegs[i] # csegs[i]
    THEN [ok |-> FALSE, inferred |-> inferred, static_matches |-> static_matches]
    ELSE WalkSegments(tsegs, csegs, i + 1, inferred, static_matches + 1)

\* The candidate tuple (static_matches, -len(inferred), template, inferred).
RECURSIVE Candidates(_, _)
Candidates(templates, csegs) ==
    IF templates = <<>> THEN <<>>
    ELSE LET template == Head(templates)
             tsegs == split_segments(template)
             w == WalkSegments(tsegs, csegs, 1, <<>>, 0)
         IN  (IF Len(tsegs) = Len(csegs) /\ w.ok
              THEN << <<w.static_matches, 0 - Len(w.inferred), template, w.inferred>> >>
              ELSE <<>>)
             \o Candidates(Tail(templates), csegs)

\* The candidate tuple built with len(inferred) in place of -len(inferred).
CandidateLessMoreParams(a, b) ==
    \/ a[1] < b[1]
    \/ a[1] = b[1] /\ a[2] > b[2]
    \/ a[1] = b[1] /\ a[2] = b[2] /\ StrLess(a[3], b[3])

\* Tuple order on candidates; the registry's keys are distinct, so the
\* comparison never reaches the fourth component.
CandidateLess(a, b) ==
    \/ a[1] < b[1]
    \/ a[1] = b[1] /\ a[2] < b[2]
    \/ a[1] = b[1] /\ a[2] = b[2] /\ StrLess(a[3], b[3])

CandidateGreater(a, b) == CandidateLess(b, a)

\* The sort without reverse=True.
SortCandidatesAscending(candidates) == SortSeq(candidates, CandidateLess)

\* candidates.sort(reverse=True)
SortCandidates(candidates) == SortSeq(candidates, CandidateGreater)

\* None is <<>>; a match is <<[template, params]>>.
_infer_template_and_params(concrete_path, registry) ==
    LET candidates == Candidates(Keys(registry), split_segments(concrete_path))
        top == SortCandidates(candidates)[1]
    IN  IF candidates = <<>> THEN <<>>
        ELSE <<[template |-> top[3], params |-> top[4]]>>

\* [path_params, query_params], each in the order of params.
_split_params_for_path(path_template, params) ==
    LET path_keys == Range(FindAllFrom(path_template, 1))
        IsPath(kv) == kv[1] \in path_keys
        IsQuery(kv) == kv[1] \notin path_keys
    IN  [path_params |-> SelectSeq(params, IsPath),
         query_params |-> SelectSeq(params, IsQuery)]

RECURSIVE FormatFrom(_, _)
FormatFrom(path, path_params) ==
    IF path_params = <<>> THEN path
    ELSE FormatFrom(Replace(path, "{" \o Head(path_params)[1] \o "}", Str(Head(path_params)[2])),
                    Tail(path_params))

_format_path(path_template, path_params) == FormatFrom(path_template, path_params)

SuggestionSegments(p) == SelectSeq(Split(Strip(p, {"/"}), "/"), NonEmpty)

\* sum(1 for t, c in zip(tsegs, csegs) if not braced(t) and t == c)
SuggestionScore(tsegs, csegs) ==
    Cardinality({i \in 1..Len(tsegs) : ~IsBraced(tsegs[i]) /\ tsegs[i] = csegs[i]})

\* The loop of lines 237-244; best_tpl is None (<<>>) or <<tpl>>.
RECURSIVE SuggestionLoop(_, _, _, _)
SuggestionLoop(templates, csegs, best_tpl, best_score) ==
    IF templates = <<>> THEN best_tpl
    ELSE LET tsegs == SuggestionSegments(Head(templates))
         IN  IF Len(tsegs) # Len(csegs)
             THEN SuggestionLoop(Tail(templates), csegs, best_tpl, best_score)
             ELSE IF SuggestionScore(tsegs, csegs) > best_score
             THEN SuggestionLoop(Tail(templates), csegs, <<Head(templates)>>,
                                 SuggestionScore(tsegs, csegs))
             ELSE SuggestionLoop(Tail(templates), csegs, best_tpl, best_score)

\* _best_suggestion with best_score starting at 0.
BestSuggestionFromZero(concrete, registry) ==
    SuggestionLoop(Keys(registry), SuggestionSegments(concrete), <<>>, 0)

_best_suggestion(concrete, registry) ==
    SuggestionLoop(Keys(registry), SuggestionSegments(concrete), <<>>, 0 - 1)

KnownPathsLimit == 50

\* sorted(list(registry.keys()))[:50]
KnownPaths(registry) ==
    LET all == SortedStrs(Keys(registry))
    IN  SubSeq(all, 1, IF Len(all) < KnownPathsLimit THEN Len(all) ELSE KnownPathsLimit)

get_allowed_query_param_names(registry, path) ==
    IF HasKey(registry, path) THEN Range(Get(registry, path).queryParamNames) ELSE {}

get_path_param_names(registry, path) ==
    IF HasKey(registry, path) THEN Range(Get(registry, path).pathParamNames)
    ELSE _path_param_names(path)

(***************************************************************************)
(* Discovery and parameter introspection (generic.py 60-107, 323-339)      *)
(***************************************************************************)

\* sep.join(strs)
RECURSIVE Join(_, _)
Join(strs, sep) ==
    IF strs = <<>> THEN ""
    ELSE IF Len(strs) = 1 THEN strs[1]
    ELSE strs[1] \o sep \o Join(Tail(strs), sep)

ExcludedTags == {StrVal("alerts"), StrVal("websocket")}

\* One element of the "parameters" comprehension of lines 84-92.
DiscoveredParameter(p) ==
    D(<< <<"name", GetOr(p, "name", NoneVal)>>,
         <<"in", GetOr(p, "in", NoneVal)>>,
         <<"required", Or(GetOr(p, "required", BoolVal(FALSE)),
                          BoolVal(GetOr(p, "in", NoneVal) = StrVal("path")))>>,
         <<"schema", GetOr(p, "schema", NoneVal)>> >>)

\* The entry search_endpoints makes for a path with a GET operation.
DiscoveredEntry(spec, path) ==
    LET op == get_operation(spec, path)
        params == get_parameters_shallow(spec, op)
    IN  [path |-> path,
         summary |-> Or(Or(GetOr(op, "summary", NoneVal), GetOr(op, "description", NoneVal)),
                        StrVal("")),
         tags |-> Or(GetOr(op, "tags", NoneVal), L(<<>>)),
         parameters |-> [i \in DOMAIN params |-> DiscoveredParameter(params[i])],
         responseSchema |-> extract_response_schema_shallow(spec, op)]

\* Lines 96-104: the entry passes the optional substring filter.
QueryAdmits(query, entry) ==
    \/ query = <<>>
    \/ query[1] = ""
    \/ Contains(Lower(Join(<<entry.path, entry.summary.s,
                             Join([i \in DOMAIN entry.tags.l |-> entry.tags.l[i].s], " ")>>,
                           " ")),
                Lower(query[1]))

RECURSIVE SearchFrom(_, _, _)
SearchFrom(spec, paths, query) ==
    IF paths = <<>> THEN <<>>
    ELSE LET entry == DiscoveredEntry(spec, Head(paths))
         IN  (IF /\ Truthy(get_operation(spec, Head(paths)))
                 /\ Range(entry.tags.l) \cap ExcludedTags = {}
                 /\ QueryAdmits(query, entry)
              THEN <<entry>> ELSE <<>>)
             \o SearchFrom(spec, Tail(paths), query)

\* search_endpoints(query); query is <<>> for None.
search_endpoints(spec, query) ==
    LET results == SearchFrom(spec, list_paths(spec), query)
    IN  [paths |-> results, count |-> Len(results)]

\* get_available_params(path) on the registry get_registry_shallow returned.
get_available_params(registry, path) ==
    IF ~HasKey(registry, path)
    THEN [error |-> "Unknown GET path: " \o path, known_paths |-> KnownPaths(registry)]
    ELSE LET entry == Get(registry, path)
             path_param_names == Range(entry.pathParamNames)
             NamedInPath(p) == /\ GetOr(p, "name", NoneVal).k = "str"
                               /\ GetOr(p, "name", NoneVal).s \in path_param_names
             InQuery(p) == GetOr(p, "in", NoneVal) = StrVal("query")
         IN  [path |-> path,
              path_parameters |-> SelectSeq(entry.parameters, NamedInPath),
              query_parameters |-> SelectSeq(entry.parameters, InQuery),
              tags |-> Or(entry.tags, L(<<>>)),
              summary |-> Or(entry.summary, StrVal(""))]

(***************************************************************************)
(* call_get_internal up to the upstream request (lines 201-274)            *)
(***************************************************************************)

\* FirstMismatch comparing the supplied value itself, not its string form.
RECURSIVE FirstMismatchNoStr(_, _)
FirstMismatchNoStr(inferred_path_params, effective_params) ==
    IF inferred_path_params = <<>> THEN <<>>
    ELSE LET k == Head(inferred_path_params)[1]
             v == Head(inferred_path_params)[2]
         IN  IF HasKey(effective_params, k) /\ Get(effective_params, k) # StrVal(v)
             THEN <<k, v>>
             ELSE FirstMismatchNoStr(Tail(inferred_path_params), effective_params)

\* The first (k, v) of inferred_path_params that a supplied value
\* contradicts (lines 218-219): <<>> or <<k, v>>.
RECURSIVE FirstMismatch(_, _)
FirstMismatch(inferred_path_params, effective_params) ==
    IF inferred_path_params = <<>> THEN <<>>
    ELSE LET k == Head(inferred_path_params)[1]
             v == Head(inferred_path_params)[2]
         IN  IF HasKey(effective_params, k) /\ Str(Get(effective_params, k)) # v
             THEN <<k, v>>
             ELSE FirstMismatch(Tail(inferred_path_params), effective_params)

\* Lines 228-229: effective_params.setdefault(k, v) for each inferred pair.
RECURSIVE MergeInferred(_, _)
MergeInferred(effective_params, inferred_path_params) ==
    IF inferred_path_params = <<>> THEN effective_params
    ELSE MergeInferred(SetDefault(effective_params, Head(inferred_path_params)[1],
                                  StrVal(Head(inferred_path_params)[2])),
                       Tail(inferred_path_params))

\* Lines 210-251: the effective path and parameters, or the error returned.
ResolvePath(registry, path, params) ==
    LET inferred == _infer_template_and_params(path, registry)
        mismatch == FirstMismatch(inferred[1].params, params)
    IN  IF HasKey(registry, path)
        THEN [error |-> <<>>, inferred |-> <<>>,
              effective_path |-> path, effective_params |-> params]
        ELSE IF inferred = <<>>
        THEN [error |-> <<[error |-> "Unknown GET path: " \o path,
                           suggested_template |-> _best_suggestion(path, registry),
                           known_paths |-> KnownPaths(registry)]>>,
              inferred |-> inferred,
              effective_path |-> path, effective_params |-> params]
        ELSE IF mismatch # <<>>
        THEN [error |-> <<[error |-> "Path parameter mismatch",
                           param |-> mismatch[1],
                           from_path |-> mismatch[2],
                           from_params |-> Str(Get(params, mismatch[1])),
                           template |-> inferred[1].template]>>,
              inferred |-> inferred,
              effective_path |-> path, effective_params |-> params]
        ELSE [error |-> <<>>, inferred |-> inferred,
              effective_path |-> inferred[1].template,
              effective_params |-> MergeInferred(params, inferred[1].params)]

\* MissingPath with the difference taken the wrong way round.
MissingPathReversed(required_path, path_params) ==
    SortedStrs(SetToSeq(KeySet(path_params) \ required_path))

\* Line 258: sorted(list(required_path - set(path_params.keys())))
MissingPath(required_path, path_params) ==
    SortedStrs(SetToSeq(required_path \ KeySet(path_params)))

\* UnknownQuery without the sort.
UnknownQueryUnsorted(query_params, allowed_query) ==
    LET NotAllowed(k) == k \notin allowed_query
    IN  SelectSeq(Keys(query_params), NotAllowed)

\* Line 262: sorted([k for k in query_params.keys() if k not in allowed_query])
UnknownQuery(query_params, allowed_query) ==
    LET NotAllowed(k) == k \notin allowed_query
    IN  SortedStrs(SelectSeq(Keys(query_params), NotAllowed))

\* Lines 259-271, with the two lists computed: the validation error
\* returned, or the request to send.
ValidationOutcome(effective_path, split, missing_path, unknown_query, allowed_query) ==
    IF missing_path # <<>>
    THEN [error |-> <<[error |-> "Missing path parameters",
                       missing |-> missing_path,
                       path |-> effective_path]>>,
          request |-> <<>>]
    ELSE IF unknown_query # <<>>
    THEN [error |-> <<[error |-> "Unknown query parameters",
                       unknown |-> unknown_query,
                       allowed |-> SortedStrs(SetToSeq(allowed_query)),
                       path |-> effective_path]>>,
          request |-> <<>>]
    ELSE [error |-> <<>>,
          request |-> <<[path |-> _format_path(effective_path, split.path_params),
                         params |-> split.query_params]>>]

\* Lines 253-271.
Validate(registry, effective_path, effective_params) ==
    LET allowed_query == get_allowed_query_param_names(registry, effective_path)
        required_path == get_path_param_names(registry, effective_path)
        split == _split_params_for_path(effective_path, effective_params)
    IN  ValidationOutcome(effective_path, split,
                          MissingPath(required_path, split.path_params),
                          UnknownQuery(split.query_params, allowed_query),
                          allowed_query)

(***************************************************************************)
(* The response envelope (lines 275-318)                                   *)
(***************************************************************************)

\* The bodies resp.json() parses; any other body raises ValueError.
JsonBodies == {"{}", "[1]"}

ToolName(real_path) ==
    LET name == Replace(Replace(Replace(Strip(real_path, {"/"}), "/", "_"), "{", ""), "}", "")
    IN  IF name = "" THEN "uwmcp" ELSE name

\* ContentTypeTtg on the path as it is, not lowercased.
ContentTypeTtgCaseSensitive(real_path) ==
    IF Contains(real_path, "darkpool") THEN "darkpool_trades"
    ELSE IF Contains(real_path, "options") /\ ~Contains(real_path, "chain")
    THEN "options_flow"
    ELSE IF Contains(real_path, "market/movers") THEN "market_movers"
    ELSE "json"

ContentTypeTtg(real_path) ==
    LET lower_path == Lower(real_path)
    IN  IF Contains(lower_path, "darkpool") THEN "darkpool_trades"
        ELSE IF Contains(lower_path, "options") /\ ~Contains(lower_path, "chain")
        THEN "options_flow"
        ELSE IF Contains(lower_path, "market/movers") THEN "market_movers"
        ELSE "json"

\* resp is [status, headers, body]; content_type is the content-type header,
\* or "" when the response has none.
Envelope(real_path, resp) ==
    LET content_type == IF HasKey(resp.headers, "content-type")
                        THEN Get(resp.headers, "content-type") ELSE ""
    IN
    IF Contains(Lower(content_type), "application/json") /\ resp.body \in JsonBodies
    THEN [content |-> <<[type |-> "text", text |-> resp.body],
                        [type |-> "ttg",
                         ttg |-> [toolName |-> ToolName(real_path),
                                  contentType |-> ContentTypeTtg(real_path),
                                  data |-> resp.body]]>>]
    ELSE [status |-> resp.status,
          headers |-> resp.headers,
          content |-> resp.body,
          media_type |-> content_type]

(***************************************************************************)
(* Inputs: the spec documents on disk, the calls and the upstream's        *)
(* responses.                                                              *)
(***************************************************************************)

\* Bounds of the model.
MaxPaths == 2

MaxParams == 2

Param(name, loc) == D(<< <<"name", StrVal(name)>>, <<"in", StrVal(loc)>> >>)

RequiredParam(name, loc) ==
    D(<< <<"name", StrVal(name)>>, <<"in", StrVal(loc)>>, <<"required", BoolVal(TRUE)>> >>)

RefTo(target) == D(<< <<"$ref", StrVal(target)>> >>)

GetItem(summary, parameters) ==
    D(<< <<"get", D(<< <<"summary", StrVal(summary)>>,
                       <<"parameters", L(parameters)>> >>)>> >>)

\* The path items a document is assembled from.
Endpoints ==
    { <<"/a/{x}/b", GetItem("by x", <<Param("x", "path"), Param("q", "query"),
                                      Param("limit", "query")>>)>>,
      <<"/a/lit/b", GetItem("literal", <<Param("q", "query")>>)>>,
      <<"/a/{y}/b", GetItem("by y", <<RequiredParam("y", "path"), Param("q", "query")>>)>>,
      <<"/api/{x}/{y}", GetItem("two", <<Param("x", "path"), Param("y", "path"),
                                         RefTo("#/components/parameters/Limit")>>)>> }

\* A path item without a GET operation: never part of the registry.
PostOnly == <<"/a/post/b", D(<< <<"post", D(<< <<"summary", StrVal("write")>> >>)>> >>)>>

Components ==
    D(<< <<"parameters", D(<< <<"Limit", Param("limit", "query")>> >>)>> >>)

Document(items) == D(<< <<"paths", D(items)>>, <<"components", Components>> >>)

\* The sequences of at most n distinct elements of S.
RECURSIVE Arrangements(_, _)
Arrangements(S, n) ==
    IF n = 0 THEN {<<>>}
    ELSE LET shorter == Arrangements(S, n - 1)
         IN  shorter \cup {Append(a, x) : <<a, x>> \in
                             {ax \in shorter \X S : ax[2] \notin Range(ax[1])}}

\* A document with more GET paths than the known_paths list shows.
RECURSIVE NumberedItems(_)
NumberedItems(n) ==
    IF n = 0 THEN <<>>
    ELSE Append(NumberedItems(n - 1), <<"/k/" \o IntStr(n), GetItem("numbered", <<>>)>>)

LargeDocument == Document(NumberedItems(KnownPathsLimit + 2))

Documents ==
    {Document(Append(items, PostOnly)) : items \in Arrangements(Endpoints, MaxPaths)}
    \cup {LargeDocument}

CallPaths ==
    { "/a/{x}/b", "/a/lit/b", "a/5/b/", "/a/lit/c", "/k/x", "/api/{x}/{y}",
      "/api/darkpool/options", "/api/options/chain", "/api/Options/5",
      "/api/market/movers" }

ParamKeys == {"x", "q", "zz"}

ParamValues == {IntVal(5), StrVal("lit")}

\* The dicts of at most n entries, in every insertion order.
RECURSIVE Dicts(_)
Dicts(n) ==
    IF n = 0 THEN {<<>>}
    ELSE LET shorter == Dicts(n - 1)
         IN  shorter \cup {Append(d, kv) : <<d, kv>> \in
                             {dkv \in shorter \X (ParamKeys \X ParamValues) :
                                 ~HasKey(dkv[1], dkv[2][1])}}

CallParams == Dicts(MaxParams)

Responses ==
    [status : {200, 500},
     headers : {<<>>, << <<"content-type", "Application/JSON; charset=utf-8">> >>,
                << <<"content-type", "text/html">> >>},
     body : {"{}", "oops"}]

(***************************************************************************)
(* State                                                                   *)
(***************************************************************************)

VARIABLES
    spec_file,          \* openapi.yaml as load_spec() reads it
    _SHALLOW_REGISTRY,  \* schemas._SHALLOW_REGISTRY: <<>> (None) or <<registry>>
    _async_client,      \* client._async_client: <<>> (None) or <<client>>
    clients_created,    \* the httpx.AsyncClient instances constructed so far
    pc,                 \* where the running call_get_internal is
    path,               \* its arguments
    params,
    inferred,           \* its locals
    effective_path,
    effective_params,
    requests,           \* the upstream GETs it has issued
    result,             \* what it returned
    matcher,            \* a run of the Path Matcher on its own
    simplify,           \* the running _simplify_schema call
    lazy                \* concurrent tool calls at their lazy initialisations

module_vars == <<spec_file, _SHALLOW_REGISTRY, _async_client, clients_created>>

call_vars == <<pc, path, params, inferred, effective_path, effective_params, requests,
               result>>

vars == <<module_vars, call_vars, matcher, simplify, lazy>>

NoResult == [none |-> TRUE]

NoMatcher == [pc |-> "idle", template |-> <<>>, assignment |-> <<>>, concrete |-> "",
              result |-> <<>>]

NoSimplify == [input |-> NoneVal, stack |-> <<>>, ret |-> <<>>, status |-> "idle",
               calls |-> <<>>]

\* The tool calls in flight at once.
Tasks == 2

IdleTask == [tool |-> "none", pc |-> "idle", registry |-> <<>>, client |-> <<>>]

\* threaded: the host runs the tools on several threads;
\* registry_builds: the registries built and stored so far, the last of
\* which is the object _SHALLOW_REGISTRY refers to;
\* task[t]: the tool task t runs, where it is, and the registry and client
\* objects it got.
NoLazy == [threaded |-> FALSE, registry_builds |-> 0, task |-> [t \in 1..Tasks |-> IdleTask]]

NoCall ==
    /\ pc = "idle"
    /\ path = ""
    /\ params = <<>>
    /\ inferred = <<>>
    /\ effective_path = ""
    /\ effective_params = <<>>
    /\ requests = <<>>
    /\ result = NoResult

(***************************************************************************)
(* Spec: the process serving call_get, one call at a time.                 *)
(***************************************************************************)

Init ==
    /\ spec_file \in Documents
    /\ _SHALLOW_REGISTRY = <<>>
    /\ _async_client = <<>>
    /\ clients_created = 0
    /\ NoCall
    /\ matcher = NoMatcher
    /\ simplify = NoSimplify
    /\ lazy = NoLazy

\* get_registry_shallow(): the cached registry, built on first use.
get_registry_shallow ==
    IF _SHALLOW_REGISTRY = <<>> THEN build_registry_shallow(spec_file)
    ELSE _SHALLOW_REGISTRY[1]

\* call_get_internal(p, ps) from its entry to its first return or to the
\* suspension in client.get (line 274).
CallGet(p, ps) ==
    /\ pc = "idle"
    /\ \E registry \in {get_registry_shallow} :
       \E resolved \in {ResolvePath(registry, p, ps)} :
       \E checked \in {IF resolved.error = <<>>
                        THEN Validate(registry, resolved.effective_path,
                                      resolved.effective_params)
                        ELSE [error |-> resolved.error, request |-> <<>>]} :
          /\ _SHALLOW_REGISTRY' = <<registry>>
          /\ inferred' = resolved.inferred
          /\ effective_path' = resolved.effective_path
          /\ effective_params' = resolved.effective_params
          /\ IF checked.error # <<>>
             THEN pc' = "returned" /\ result' = checked.error[1] /\ requests' = requests
             ELSE pc' = "awaiting" /\ result' = result
                  /\ requests' = Append(requests, checked.request[1])
    /\ _async_client' = IF _async_client = <<>> THEN <<clients_created + 1>>
                        ELSE _async_client
    /\ clients_created' = IF _async_client = <<>> THEN clients_created + 1
                          ELSE clients_created
    /\ path' = p
    /\ params' = ps
    /\ UNCHANGED <<spec_file, matcher, simplify, lazy>>

\* UpstreamResponds with one retry of a 5xx answer.
UpstreamRespondsRetrying(resp) ==
    /\ pc = "awaiting"
    /\ IF resp.status >= 500 /\ Len(requests) < 2
       THEN /\ pc' = "awaiting"
            /\ requests' = Append(requests, requests[Len(requests)])
            /\ result' = result
       ELSE /\ pc' = "returned"
            /\ requests' = requests
            /\ result' = Envelope(requests[Len(requests)].path, resp)
    /\ UNCHANGED <<module_vars, path, params, inferred, effective_path,
                   effective_params, matcher, simplify, lazy>>

\* The upstream answers: lines 275-318.
UpstreamResponds(resp) ==
    /\ pc = "awaiting"
    /\ pc' = "returned"
    /\ result' = Envelope(requests[Len(requests)].path, resp)
    /\ UNCHANGED <<module_vars, path, params, inferred, effective_path,
                   effective_params, requests, matcher, simplify, lazy>>

\* client.get raises (a timeout, a connection error): nothing catches it.
UpstreamFails ==
    /\ pc = "awaiting"
    /\ pc' = "raised"
    /\ UNCHANGED <<module_vars, path, params, inferred, effective_path,
                   effective_params, requests, result, matcher, simplify, lazy>>

\* The call is over; the next one starts with fresh locals.
Finish ==
    /\ pc \in {"returned", "raised"}
    /\ pc' = "idle"
    /\ path' = ""
    /\ params' = <<>>
    /\ inferred' = <<>>
    /\ effective_path' = ""
    /\ effective_params' = <<>>
    /\ requests' = <<>>
    /\ result' = NoResult
    /\ UNCHANGED <<module_vars, matcher, simplify, lazy>>

Next ==
    \/ \E p \in CallPaths, ps \in CallParams : CallGet(p, ps)
    \/ \E resp \in Responses : UpstreamResponds(resp)
    \/ UpstreamFails
    \/ Finish

Spec == Init /\ [][Next]_vars

(***************************************************************************)
(* SpecMatcher: the Path Matcher applied to a built registry, on a path    *)
(* given as such or obtained by substituting values into a template.       *)
(***************************************************************************)

\* Templates for the matcher: those above and one that names a placeholder
\* twice, so that candidates with equal literal counts differ in the number
\* of inferred parameters.
MatcherEndpoints ==
    Endpoints \cup { <<"/api/{x}/{x}", GetItem("twice", <<Param("x", "path")>>)>> }

MatcherDocuments ==
    {Document(Append(items, PostOnly)) : items \in Arrangements(MatcherEndpoints, MaxPaths)}

MatcherPaths == CallPaths \cup {"/api/5/5", "/api/5/lit"}

AssignValues == {"5", "lit", "", "5/lit"}

\* The first occurrences of a sequence's elements, in order.
RECURSIVE Distinct(_)
Distinct(seq) ==
    IF seq = <<>> THEN <<>>
    ELSE LET rest == Distinct(SubSeq(seq, 1, Len(seq) - 1))
         IN  IF seq[Len(seq)] \in Range(rest) THEN rest ELSE Append(rest, seq[Len(seq)])

\* The dicts giving each of names a value of AssignValues, in the names' order.
RECURSIVE Assignments(_)
Assignments(names) ==
    IF names = <<>> THEN {<<>>}
    ELSE {<< <<Head(names), StrVal(v)>> >> \o rest :
             v \in AssignValues, rest \in Assignments(Tail(names))}

MatcherInit ==
    /\ spec_file \in MatcherDocuments
    /\ _SHALLOW_REGISTRY = <<build_registry_shallow(spec_file)>>
    /\ _async_client = <<>>
    /\ clients_created = 0
    /\ NoCall
    /\ matcher = NoMatcher
    /\ simplify = NoSimplify
    /\ lazy = NoLazy

\* _format_path(template, assignment) for a template of the registry.
Substitute(template, assignment) ==
    /\ matcher.pc = "idle"
    /\ matcher' = [pc |-> "ready", template |-> <<template>>, assignment |-> assignment,
                   concrete |-> _format_path(template, assignment), result |-> <<>>]
    /\ UNCHANGED <<module_vars, call_vars, simplify, lazy>>

\* A concrete path from the caller.
GivePath(p) ==
    /\ matcher.pc = "idle"
    /\ matcher' = [NoMatcher EXCEPT !.pc = "ready", !.concrete = p]
    /\ UNCHANGED <<module_vars, call_vars, simplify, lazy>>

\* _infer_template_and_params(concrete, registry)
Match ==
    /\ matcher.pc = "ready"
    /\ matcher' = [matcher EXCEPT
                      !.pc = "matched",
                      !.result = _infer_template_and_params(matcher.concrete,
                                                            _SHALLOW_REGISTRY[1])]
    /\ UNCHANGED <<module_vars, call_vars, simplify, lazy>>

MatcherReset ==
    /\ matcher.pc = "matched"
    /\ matcher' = NoMatcher
    /\ UNCHANGED <<module_vars, call_vars, simplify, lazy>>

MatcherNext ==
    \/ \E template \in Range(Keys(_SHALLOW_REGISTRY[1])) :
          \E assignment \in Assignments(Distinct(FindAllFrom(template, 1))) :
             Substitute(template, assignment)
    \/ \E p \in MatcherPaths : GivePath(p)
    \/ Match
    \/ MatcherReset

SpecMatcher == MatcherInit /\ [][MatcherNext]_vars

(***************************************************************************)
(* SpecSchema: _simplify_schema, step by step, on the schema nodes of      *)
(* documents whose component schemas refer to one another in chains.       *)
(***************************************************************************)

\* The longest chain of references between component schemas.
SchemaDepth == 2

SchemaRef(name) == RefTo("#/components/schemas/" \o name)

ObjectSchema ==
    D(<< <<"type", StrVal("object")>>, <<"title", StrVal("row")>>,
         <<"properties", D(<< <<"price", D(<< <<"type", StrVal("string")>> >>)>> >>)>> >>)

ArrayOf(items) == D(<< <<"type", StrVal("array")>>, <<"items", items>> >>)

\* Arr0 is an array of inline objects, Arr<i> an array of Arr<i-1>;
\* Ref0 refers to Obj, Ref<i> to Ref<i-1>.
RECURSIVE ChainSchemas(_)
ChainSchemas(depth) ==
    IF depth = 0
    THEN << <<"Arr0", ArrayOf(ObjectSchema)>>, <<"Ref0", SchemaRef("Obj")>> >>
    ELSE ChainSchemas(depth - 1)
         \o << <<"Arr" \o IntStr(depth), ArrayOf(SchemaRef("Arr" \o IntStr(depth - 1)))>>,
               <<"Ref" \o IntStr(depth), SchemaRef("Ref" \o IntStr(depth - 1))>> >>

\* Schemas that refer to themselves: directly, through another reference,
\* and through their items.
CyclicSchemas ==
    << <<"Self", SchemaRef("Self")>>,
       <<"Ping", SchemaRef("Pong")>>,
       <<"Pong", SchemaRef("Ping")>>,
       <<"Tree", ArrayOf(SchemaRef("Tree"))>> >>

SchemaDocument(depth) ==
    D(<< <<"paths", EmptyDict>>,
         <<"components",
           D(<< <<"schemas",
                  D(<< <<"Obj", ObjectSchema>>,
                       <<"Leaf", D(<< <<"type", StrVal("string")>>,
                                      <<"format", StrVal("date")>>,
                                      <<"enum", L(<<StrVal("mon")>>)>>,
                                      <<"description", StrVal("a day")>> >>)>> >>
                     \o ChainSchemas(depth) \o CyclicSchemas)>> >>)>> >>)

SchemaDocuments == {SchemaDocument(depth) : depth \in 0..SchemaDepth}

\* The schema nodes _simplify_schema is applied to: references into the
\* chains (dangling in the documents with shorter chains), arrays of them,
\* inline schemas, a node that is no mapping, a reference through a scalar.
SchemaNodes ==
    {SchemaRef("Arr" \o IntStr(i)) : i \in 0..SchemaDepth}
    \cup {SchemaRef("Ref" \o IntStr(i)) : i \in 0..SchemaDepth}
    \cup {ArrayOf(SchemaRef("Ref" \o IntStr(i))) : i \in 0..SchemaDepth}
    \cup { SchemaRef("Leaf"), ObjectSchema, ArrayOf(ObjectSchema),
           ArrayOf(SchemaRef("Leaf")), ArrayOf(BoolVal(TRUE)), StrVal("string"),
           SchemaRef("Leaf/type/x"), RefTo("Leaf"),
           SchemaRef("Self"), SchemaRef("Ping"), SchemaRef("Tree") }

SchemaInit ==
    /\ spec_file \in SchemaDocuments
    /\ _SHALLOW_REGISTRY = <<>>
    /\ _async_client = <<>>
    /\ clients_created = 0
    /\ NoCall
    /\ matcher = NoMatcher
    /\ simplify = NoSimplify
    /\ lazy = NoLazy

\* _simplify_schema(spec, schema) is called.
SimplifyCall(schema) ==
    /\ simplify.status = "idle"
    /\ simplify' = SimplifyStart(schema)
    /\ UNCHANGED <<module_vars, call_vars, matcher, lazy>>

\* The innermost frame runs to its next call or to its return.
SimplifyAdvance ==
    /\ simplify.status = "running"
    /\ simplify' = SimplifyStep(spec_file, simplify)
    /\ UNCHANGED <<module_vars, call_vars, matcher, lazy>>

\* The caller has the result (or the exception).
SimplifyOver ==
    /\ simplify.status \in {"done", "raised", "overflow"}
    /\ simplify' = NoSimplify
    /\ UNCHANGED <<module_vars, call_vars, matcher, lazy>>

\* The ref values resolve_ref is given: to a schema, to a key that is
\* missing, through a scalar, through a sequence, to nothing, without the
\* "#/" prefix, and one that is no string.
RefValues ==
    { StrVal("#/components/schemas/Leaf"), StrVal("#/components/schemas/Leaf/format"),
      StrVal("#/components/schemas/Arr1"), StrVal("#/components/schemas/Missing/type"),
      StrVal("#/components/schemas/Leaf/type/x"), StrVal("#/components/schemas/Leaf/enum/0"),
      StrVal("#/"), StrVal("components/schemas/Leaf"), IntVal(5), NoneVal }

\* resolve_ref(spec, ref) is called on its own.
ResolveRef(ref) ==
    /\ pc = "idle"
    /\ \E r \in {resolve_ref(spec_file, ref)} :
          /\ pc' = IF r.raised THEN "raised" ELSE "returned"
          /\ result' = [ref |-> ref, raised |-> r.raised, value |-> r.value]
    /\ UNCHANGED <<module_vars, path, params, inferred, effective_path, effective_params,
                   requests, matcher, simplify, lazy>>

SchemaNext ==
    \/ \E schema \in SchemaNodes : SimplifyCall(schema)
    \/ SimplifyAdvance
    \/ SimplifyOver
    \/ \E ref \in RefValues : ResolveRef(ref)
    \/ Finish

SpecSchema == SchemaInit /\ [][SchemaNext]_vars

(***************************************************************************)
(* SpecRegistry: discovery, introspection and dispatch on documents whose  *)
(* templates carry placeholders in every position.                         *)
(***************************************************************************)

TaggedItem(summary, tags, parameters) ==
    D(<< <<"get", D(<< <<"summary", StrVal(summary)>>,
                       <<"tags", L(tags)>>,
                       <<"parameters", L(parameters)>> >>)>> >>)

OptionalParam(name, loc) ==
    D(<< <<"name", StrVal(name)>>, <<"in", StrVal(loc)>>, <<"required", BoolVal(FALSE)>> >>)

RegistryEndpoints ==
    { <<"/s/{t}.{u}", TaggedItem("Split", <<StrVal("stock")>>,
                                 <<Param("t", "path"), RequiredParam("u", "path"),
                                   Param("q", "query")>>)>>,
      <<"/r/{x}/{x}", GetItem("twice", <<RequiredParam("x", "path")>>)>>,
      <<"/e/{}/b", GetItem("unnamed", <<>>)>>,
      <<"/plain", TaggedItem("push", <<StrVal("alerts")>>, <<Param("q", "query")>>)>>,
      <<"/a/{x}/b", GetItem("by x", <<Param("x", "path"), RequiredParam("q", "query")>>)>>,
      <<"/f/{id}", GetItem("optional", <<OptionalParam("id", "path")>>)>> }

RegistryDocuments ==
    {Document(Append(items, PostOnly)) : items \in Arrangements(RegistryEndpoints, MaxPaths)}

RegistryPaths == {"/s/{t}.{u}", "/a/{x}/b", "/plain", "/f/7", "/a/post/b"}

Queries == {<<>>, <<"">>, <<"STOCK">>, <<"by">>}

OkResponse == [status |-> 200, headers |-> <<>>, body |-> "{}"]

RegistryInit ==
    /\ spec_file \in RegistryDocuments
    /\ _SHALLOW_REGISTRY = <<>>
    /\ _async_client = <<>>
    /\ clients_created = 0
    /\ NoCall
    /\ matcher = NoMatcher
    /\ simplify = NoSimplify
    /\ lazy = NoLazy

\* The tool search_endpoints(query): it reads the document, not the registry.
SearchEndpoints(query) ==
    /\ pc = "idle"
    /\ pc' = "returned"
    /\ result' = search_endpoints(spec_file, query)
    /\ UNCHANGED <<module_vars, path, params, inferred, effective_path, effective_params,
                   requests, matcher, simplify, lazy>>

\* The tool get_available_params(p).
GetAvailableParams(p) ==
    /\ pc = "idle"
    /\ \E registry \in {get_registry_shallow} :
          /\ _SHALLOW_REGISTRY' = <<registry>>
          /\ result' = get_available_params(registry, p)
    /\ pc' = "returned"
    /\ path' = p
    /\ UNCHANGED <<spec_file, _async_client, clients_created, params, inferred,
                   effective_path, effective_params, requests, matcher, simplify, lazy>>

RegistryNext ==
    \/ \E query \in Queries : SearchEndpoints(query)
    \/ \E p \in RegistryPaths : GetAvailableParams(p)
    \/ \E p \in RegistryPaths : CallGet(p, <<>>)
    \/ UpstreamResponds(OkResponse)
    \/ Finish

SpecRegistry == RegistryInit /\ [][RegistryNext]_vars

(***************************************************************************)
(* SpecLazy: several tool calls in flight at the two lazy initialisations. *)
(* call_get is a coroutine: get_client has no await between its test and   *)
(* its assignment, so it runs as one step of the event loop.               *)
(* get_registry_shallow is plain code with no lock: when the host runs     *)
(* tools on several threads its test (line 177), its build and assignment  *)
(* (178-179) and its return (180) are separate steps; on a single thread   *)
(* it is one step.  Which of the two the host does is fixed at the start.  *)
(***************************************************************************)

LazyDocuments ==
    { Document(<<PostOnly>>),
      Document(<< <<"/a/lit/b", GetItem("literal", <<Param("q", "query")>>)>>, PostOnly>>) }

Tools == {"search_endpoints", "get_available_params", "call_get"}

LazyInit ==
    /\ spec_file \in LazyDocuments
    /\ _SHALLOW_REGISTRY = <<>>
    /\ _async_client = <<>>
    /\ clients_created = 0
    /\ NoCall
    /\ matcher = NoMatcher
    /\ simplify = NoSimplify
    /\ lazy \in {[NoLazy EXCEPT !.threaded = b] : b \in BOOLEAN}

\* Task t is about to take the step `step` of its tool.
TaskAt(t, step) == lazy.task[t].pc = step

\* The host starts a tool call.  search_endpoints reads the document only
\* (generic.py 66) and touches neither the registry nor the client.
Start(t, tool) ==
    /\ TaskAt(t, "idle")
    /\ lazy' = [lazy EXCEPT !.task[t] =
                   [tool |-> tool,
                    pc |-> CASE tool = "call_get" -> "line201"
                             [] tool = "get_available_params" -> "line177"
                             [] OTHER -> "done",
                    registry |-> <<>>, client |-> <<>>]]
    /\ UNCHANGED <<module_vars, call_vars, matcher, simplify>>

\* call_get_internal line 201: get_client(), lines 25-33 of client.py.
GetClient(t) ==
    /\ TaskAt(t, "line201")
    /\ _async_client' = IF _async_client = <<>> THEN <<clients_created + 1>>
                        ELSE _async_client
    /\ clients_created' = IF _async_client = <<>> THEN clients_created + 1
                          ELSE clients_created
    /\ lazy' = [lazy EXCEPT !.task[t].client = _async_client',
                            !.task[t].pc = "line177"]
    /\ UNCHANGED <<spec_file, _SHALLOW_REGISTRY, call_vars, matcher, simplify>>

\* get_registry_shallow() as one step (a host with a single thread).
GetRegistryShallow(t) ==
    /\ ~lazy.threaded
    /\ TaskAt(t, "line177")
    /\ _SHALLOW_REGISTRY' = <<get_registry_shallow>>
    /\ \E builds \in {lazy.registry_builds + IF _SHALLOW_REGISTRY = <<>> THEN 1 ELSE 0} :
          lazy' = [lazy EXCEPT !.registry_builds = builds,
                                !.task[t].registry = <<builds>>,
                                !.task[t].pc = "done"]
    /\ UNCHANGED <<spec_file, _async_client, clients_created, call_vars, matcher, simplify>>

\* Line 177: `if _SHALLOW_REGISTRY is None`.
RegistryTest(t) ==
    /\ lazy.threaded
    /\ TaskAt(t, "line177")
    /\ lazy' = [lazy EXCEPT !.task[t].pc =
                   IF _SHALLOW_REGISTRY = <<>> THEN "line178" ELSE "line180"]
    /\ UNCHANGED <<module_vars, call_vars, matcher, simplify>>

\* Lines 178-179: load_spec(), build_registry_shallow(spec) and the
\* assignment of the new object to _SHALLOW_REGISTRY.
RegistryBuild(t) ==
    /\ lazy.threaded
    /\ TaskAt(t, "line178")
    /\ _SHALLOW_REGISTRY' = <<build_registry_shallow(spec_file)>>
    /\ lazy' = [lazy EXCEPT !.registry_builds = @ + 1, !.task[t].pc = "line180"]
    /\ UNCHANGED <<spec_file, _async_client, clients_created, call_vars, matcher, simplify>>

\* Line 180: `return _SHALLOW_REGISTRY`.
RegistryReturn(t) ==
    /\ lazy.threaded
    /\ TaskAt(t, "line180")
    /\ lazy' = [lazy EXCEPT !.task[t].registry = <<lazy.registry_builds>>,
                            !.task[t].pc = "done"]
    /\ UNCHANGED <<module_vars, call_vars, matcher, simplify>>

\* The tool call is over; the task keeps what it got until it starts again.
TaskReturns(t) ==
    /\ TaskAt(t, "done")
    /\ lazy' = [lazy EXCEPT !.task[t].pc = "idle"]
    /\ UNCHANGED <<module_vars, call_vars, matcher, simplify>>

LazyNext ==
    \E t \in 1..Tasks :
       \/ \E tool \in Tools : Start(t, tool)
       \/ GetClient(t)
       \/ GetRegistryShallow(t)
       \/ RegistryTest(t)
       \/ RegistryBuild(t)
       \/ RegistryReturn(t)
       \/ TaskReturns(t)

SpecLazy == LazyInit /\ [][LazyNext]_vars

(***************************************************************************)
(* SpecFormat: dispatch with parameter values that carry braces.           *)
(***************************************************************************)

FormatDocuments ==
    {Document(items) : items \in
        { << <<"/api/{x}/{y}", GetItem("two", <<Param("x", "path"), Param("y", "path"),
                                               Param("q", "query")>>)>> >>,
          << <<"/a/{x}/b", GetItem("by x", <<Param("x", "path")>>)>>,
             <<"/api/{x}/{y}", GetItem("two", <<Param("x", "path"), Param("y", "path")>>)>> >> }}

FormatPaths == {"/api/{x}/{y}", "/a/{x}/b", "/api/7/{y}"}

FormatValues == {IntVal(5), StrVal("lit"), StrVal("{y}"), StrVal("{x}")}

\* The dicts binding some of x and y, in both insertion orders.
FormatParams ==
    {<<>>}
    \cup {<< <<k, v>> >> : k \in {"x", "y"}, v \in FormatValues}
    \cup {<< <<k[1], v>>, <<k[2], w>> >> :
             k \in {<<"x", "y">>, <<"y", "x">>}, v \in FormatValues, w \in FormatValues}

FormatInit ==
    /\ spec_file \in FormatDocuments
    /\ _SHALLOW_REGISTRY = <<>>
    /\ _async_client = <<>>
    /\ clients_created = 0
    /\ NoCall
    /\ matcher = NoMatcher
    /\ simplify = NoSimplify
    /\ lazy = NoLazy

FormatNext ==
    \/ \E p \in FormatPaths, ps \in FormatParams : CallGet(p, ps)
    \/ UpstreamResponds(OkResponse)
    \/ Finish

SpecFormat == FormatInit /\ [][FormatNext]_vars

(***************************************************************************)
(* Properties                                                              *)
(***************************************************************************)

Registry == _SHALLOW_REGISTRY[1]

IsError(r, message) == "error" \in DOMAIN r /\ r.error = message

IsJsonEnvelope(r) == "content" \in DOMAIN r /\ "status" \notin DOMAIN r

IsRawEnvelope(r) == "status" \in DOMAIN r /\ "media_type" \in DOMAIN r

\* A list of strings in strictly ascending order.
Ascending(list) == \A i \in 1..(Len(list) - 1) : StrLess(list[i], list[i + 1])

\* The non-empty pieces of a path between slashes.
Segments(p) == SelectSeq(Split(p, "/"), NonEmpty)

\* The names of a template's {name} segments.
BracedNames(template) ==
    {SubSeq(seg, 2, Len(seg) - 1) : seg \in {g \in Range(Segments(template)) : IsBraced(g)}}

QueryNamesOf(template) == Range(Get(Registry, template).queryParamNames)

\* The supplied keys that are neither placeholders nor allowed query names.
NotAllowedKeys(template, supplied) ==
    {k \in KeySet(supplied) : k \notin BracedNames(template) /\ k \notin QueryNamesOf(template)}

C2_MissingPathParameters ==
    (/\ pc # "idle"
     /\ HasKey(Registry, effective_path)
     /\ BracedNames(effective_path) \ KeySet(effective_params) # {})
    => /\ pc = "returned"
       /\ IsError(result, "Missing path parameters")
       /\ result.path = effective_path
       /\ Range(result.missing) = BracedNames(effective_path) \ KeySet(effective_params)
       /\ Ascending(result.missing)
       /\ requests = <<>>

\* One placeholder bound, the other not.
C2_Witness ==
    /\ pc = "returned"
    /\ IsError(result, "Missing path parameters")
    /\ HasKey(params, "x")
    /\ result.missing = <<"y">>

\* The inferred keys whose supplied value differs, as a string, from the
\* inferred one.
Disagreeing(inferred_params, supplied) ==
    {k \in KeySet(inferred_params) \cap KeySet(supplied) :
        Str(Get(supplied, k)) # Get(inferred_params, k)}

\* C3: for a path that is no registry key and that the matcher resolves: a
\* supplied value that disagrees (as a string) with an inferred one gives
\* "Path parameter mismatch" naming the key, both values and the template,
\* with no upstream request; otherwise the inferred values are merged in and
\* every supplied key keeps its supplied value.
C3_MismatchOrMerge ==
    (pc # "idle" /\ ~HasKey(Registry, path) /\ inferred # <<>>)
    => IF Disagreeing(inferred[1].params, params) # {}
       THEN /\ pc = "returned"
            /\ IsError(result, "Path parameter mismatch")
            /\ result.param \in Disagreeing(inferred[1].params, params)
            /\ result.from_path = Get(inferred[1].params, result.param)
            /\ result.from_params = Str(Get(params, result.param))
            /\ result.template = inferred[1].template
            /\ requests = <<>>
       ELSE /\ ~IsError(result, "Path parameter mismatch")
            /\ effective_path = inferred[1].template
            /\ KeySet(effective_params) = KeySet(params) \cup KeySet(inferred[1].params)
            /\ \A k \in KeySet(params) : Get(effective_params, k) = Get(params, k)
            /\ \A k \in KeySet(inferred[1].params) \ KeySet(params) :
                  Get(effective_params, k) = StrVal(Get(inferred[1].params, k))

\* The int 5 was supplied for a placeholder the path binds to "5": no
\* mismatch, and the supplied int is kept.
C3_Witness ==
    /\ pc # "idle"
    /\ ~HasKey(Registry, path)
    /\ inferred # <<>>
    /\ HasKey(inferred[1].params, "x")
    /\ Get(inferred[1].params, "x") = "5"
    /\ HasKey(params, "x")
    /\ Get(effective_params, "x") = IntVal(5)
    /\ ~IsError(result, "Path parameter mismatch")

UnknownPath == pc # "idle" /\ ~HasKey(Registry, path) /\ inferred = <<>>

\* The registry templates with as many segments as p.
SameCount(p) == {t \in KeySet(Registry) : Len(Segments(t)) = Len(Segments(p))}

\* The literal segments of t equal to the segment of p at the same place.
LiteralOverlap(t, p) ==
    Cardinality({i \in 1..Len(Segments(t)) :
                    ~IsBraced(Segments(t)[i]) /\ Segments(t)[i] = Segments(p)[i]})

MaximalOverlap(t, p) ==
    t \in SameCount(p) /\ \A u \in SameCount(p) : LiteralOverlap(u, p) <= LiteralOverlap(t, p)

\* list is the first KnownPathsLimit registry templates in sorted order.
FirstKnownPaths(list) ==
    /\ Ascending(list)
    /\ Range(list) \subseteq KeySet(Registry)
    /\ Len(list) = IF Len(Registry) < KnownPathsLimit THEN Len(Registry) ELSE KnownPathsLimit
    /\ \A k \in KeySet(Registry) \ Range(list) : \A j \in Range(list) : StrLess(j, k)

Passed ==
    /\ pc # "idle"
    /\ HasKey(Registry, effective_path)
    /\ BracedNames(effective_path) \subseteq KeySet(effective_params)
    /\ NotAllowedKeys(effective_path, effective_params) = {}

HandledErrors ==
    {"Path parameter mismatch", "Missing path parameters", "Unknown query parameters"}

\* C7: a call issues at most one upstream GET: exactly one once resolution
\* and validation have passed, none when it returns one of the four errors;
\* whatever the upstream answers, the request is not repeated and the call
\* returns an envelope.
C7_AtMostOneRequest ==
    /\ Len(requests) <= 1
    /\ Passed => Len(requests) = 1 /\ pc \in {"awaiting", "returned", "raised"}
    /\ (pc # "idle" /\ ~Passed) => requests = <<>> /\ pc = "returned"
    /\ (pc = "returned" /\ "error" \in DOMAIN result)
       => /\ requests = <<>>
          /\ result.error \in HandledErrors \/ result.error = "Unknown GET path: " \o path
    /\ (pc = "returned" /\ requests # <<>>)
       => IsJsonEnvelope(result) \/ IsRawEnvelope(result)

\* The upstream answered 500 and the call returned the raw envelope after
\* its single request.
C7_Witness ==
    /\ pc = "returned"
    /\ IsRawEnvelope(result)
    /\ result.status = 500
    /\ Len(requests) = 1

Classifications == {"darkpool_trades", "options_flow", "market_movers", "json"}

\* C8: the classification of a JSON envelope follows the lowercased real
\* path: "darkpool" first, then "options" without "chain", then
\* "market/movers", else json; it is always one of the four.
C8_Classification ==
    (pc = "returned" /\ IsJsonEnvelope(result))
    => LET lower_path == Lower(requests[1].path)
           class == result.content[2].ttg.contentType
           dark == Contains(lower_path, "darkpool")
           flow == Contains(lower_path, "options") /\ ~Contains(lower_path, "chain")
           movers == Contains(lower_path, "market/movers")
       IN  /\ class \in Classifications
           /\ dark => class = "darkpool_trades"
           /\ (~dark /\ flow) => class = "options_flow"
           /\ (~dark /\ ~flow /\ movers) => class = "market_movers"
           /\ (~dark /\ ~flow /\ ~movers) => class = "json"

\* A path with an upper-case "Options": classified by its lowercased form.
C8_Witness ==
    /\ pc = "returned"
    /\ IsJsonEnvelope(result)
    /\ requests[1].path = "/api/Options/5"
    /\ result.content[2].ttg.contentType = "options_flow"

(***************************************************************************)
(* Properties of the Path Matcher (SpecMatcher)                            *)
(***************************************************************************)

\* Template t matches path p in full: as many segments, every literal
\* segment equal, every braced segment with a non-empty name.
FullMatch(t, p) ==
    /\ Len(Segments(t)) = Len(Segments(p))
    /\ \A i \in 1..Len(Segments(t)) :
          IF IsBraced(Segments(t)[i]) THEN Len(Segments(t)[i]) > 2
          ELSE Segments(t)[i] = Segments(p)[i]

\* The literal segments of a template: all of them match in a full match.
LiteralCount(t) == Cardinality({i \in 1..Len(Segments(t)) : ~IsBraced(Segments(t)[i])})

\* The parameters a full match of t infers.
ParamCount(t) == Cardinality(BracedNames(t))

\* u ranks at least as high as t.
RanksAsHigh(u, t) ==
    \/ LiteralCount(u) > LiteralCount(t)
    \/ LiteralCount(u) = LiteralCount(t) /\ ParamCount(u) <= ParamCount(t)

\* The matcher returned template t with exactly the values of assignment.
Returned(t, assignment) ==
    /\ matcher.result # <<>>
    /\ matcher.result[1].template = t
    /\ KeySet(matcher.result[1].params) = KeySet(assignment)
    /\ \A k \in KeySet(assignment) :
          Get(matcher.result[1].params, k) = Get(assignment, k).s

RoundTripDone == matcher.pc = "matched" /\ matcher.template # <<>>

C6_BestFullMatch ==
    (matcher.pc = "matched")
    => /\ matcher.result # <<>>
          => /\ HasKey(Registry, matcher.result[1].template)
             /\ FullMatch(matcher.result[1].template, matcher.concrete)
             /\ \A u \in KeySet(Registry) :
                   FullMatch(u, matcher.concrete)
                   => /\ LiteralCount(u) <= LiteralCount(matcher.result[1].template)
                      /\ LiteralCount(u) = LiteralCount(matcher.result[1].template)
                         => ParamCount(u) >= ParamCount(matcher.result[1].template)
       /\ (/\ {"/a/{x}/b", "/a/lit/b"} \subseteq KeySet(Registry)
           /\ matcher.concrete = "/a/lit/b")
          => matcher.result # <<>> /\ matcher.result[1].template = "/a/lit/b"

\* The literal template wins over the placeholder template listed first.
C6_Witness ==
    /\ matcher.pc = "matched"
    /\ Keys(Registry) = <<"/a/{x}/b", "/a/lit/b">>
    /\ matcher.concrete = "/a/lit/b"
    /\ matcher.result # <<>>
    /\ matcher.result[1].template = "/a/lit/b"

(***************************************************************************)
(* Properties of shallow simplification (SpecSchema)                       *)
(***************************************************************************)

\* No mapping inside v has a "properties" key.
RECURSIVE NoPropertiesKey(_)
NoPropertiesKey(v) ==
    CASE v.k = "dict" -> /\ ~HasKey(v.d, "properties")
                         /\ \A i \in 1..Len(v.d) : NoPropertiesKey(v.d[i][2])
      [] v.k = "list" -> \A i \in 1..Len(v.l) : NoPropertiesKey(v.l[i])
      [] OTHER -> TRUE

\* C9 as stated: the summary has no "properties" key at any depth, its keys
\* are among type, format, enum, title and items, and items holds a single
\* level of type, format, enum and title.
C9_SingleLevelSummary ==
    (simplify.status = "done" /\ IsDict(simplify.input))
    => /\ NoPropertiesKey(simplify.ret[1])
       /\ IsDict(simplify.ret[1])
       /\ KeySet(simplify.ret[1].d) \subseteq Range(SummaryKeys) \cup {"items"}
       /\ (In("items", simplify.ret[1]) /\ IsDict(Get(simplify.ret[1].d, "items")))
          => KeySet(Get(simplify.ret[1].d, "items").d) \subseteq Range(SummaryKeys)

\* The resolve_ref calls made for the schema itself, and those made for its
\* items (at line 106 or anywhere below the call of line 107).
SchemaHops == {i \in 1..Len(simplify.calls) :
                  simplify.calls[i].line = 97 /\ 107 \notin Range(simplify.calls[i].via)}

ItemsHops == (1..Len(simplify.calls)) \ SchemaHops

\* C10 as stated: at most one resolve_ref call along the schema itself and at
\* most one for its items.
C10_OneHop ==
    /\ Cardinality(SchemaHops) <= 1
    /\ Cardinality(ItemsHops) <= 1

(***************************************************************************)
(* Properties of the registry, discovery and introspection (SpecRegistry)  *)
(***************************************************************************)

\* The names between a "{" and the next "}" of a template, read off the
\* pieces the template falls into at its "{": a name is non-empty and does
\* not run over a "/".
ScannedNames(template) ==
    LET pieces == Tail(Split(template, "{"))
        Closed(piece) == Contains(piece, "}")
        NameOf(piece) == Split(piece, "}")[1]
    IN  {NameOf(pieces[i]) : i \in {j \in DOMAIN pieces : Closed(pieces[j])}}
        \ ({""} \cup {n \in {NameOf(pieces[i]) : i \in DOMAIN pieces} : Contains(n, "/")})

RegistrySound ==
    _SHALLOW_REGISTRY # <<>>
    => \A i \in DOMAIN Registry :
          /\ Range(Registry[i][2].pathParamNames) = ScannedNames(Registry[i][1])
          /\ Ascending(Registry[i][2].pathParamNames)

RegistryKept == _SHALLOW_REGISTRY # <<>> => _SHALLOW_REGISTRY' = _SHALLOW_REGISTRY

\* C11: every entry of the built registry has pathParamNames equal to the
\* set of placeholder names a regex-free scan of its template finds, in
\* every state after the build, and the built registry never changes.
C11_PathParamNames == [](RegistrySound) /\ [][RegistryKept]_vars

\* A registry with a template of two placeholders in one segment has been
\* built and a later call has returned.
C11_Witness ==
    /\ _SHALLOW_REGISTRY # <<>>
    /\ HasKey(Registry, "/s/{t}.{u}")
    /\ Get(Registry, "/s/{t}.{u}").pathParamNames = <<"t", "u">>
    /\ HasKey(Registry, "/e/{}/b")
    /\ pc = "returned"
    /\ "paths" \in DOMAIN result

\* Every parameter of the list with location path has required = True.
PathRequired(parameters) ==
    \A i \in DOMAIN parameters :
       GetOr(parameters[i], "in", NoneVal) = StrVal("path")
       => GetOr(parameters[i], "required", NoneVal) = BoolVal(TRUE)

\* C13 as stated: path parameters report required = true in the output of
\* search_endpoints, in the registry, and in the path_parameters of
\* get_available_params.
C13_PathParametersRequired ==
    /\ (pc = "returned" /\ "paths" \in DOMAIN result)
       => \A i \in DOMAIN result.paths : PathRequired(result.paths[i].parameters)
    /\ _SHALLOW_REGISTRY # <<>>
       => \A i \in DOMAIN Registry : PathRequired(Registry[i][2].parameters)
    /\ (pc = "returned" /\ "path_parameters" \in DOMAIN result)
       => PathRequired(result.path_parameters)

\* The part of C13 that is about search_endpoints alone.
DiscoveryPathRequired ==
    (pc = "returned" /\ "paths" \in DOMAIN result)
    => \A i \in DOMAIN result.paths : PathRequired(result.paths[i].parameters)

(***************************************************************************)
(* Properties of the lazy initialisations (SpecLazy)                       *)
(***************************************************************************)

\* The registry, or the client, objects the tasks got are one and the same.
SameObject(field) ==
    \A t, u \in 1..Tasks :
       (lazy.task[t][field] # <<>> /\ lazy.task[u][field] # <<>>)
       => lazy.task[t][field] = lazy.task[u][field]

\* C12 as stated: the registry is built and stored at most once, at most one
\* client is created, and all calls get the same registry and the same
\* client.
C12_SingleWinner ==
    /\ lazy.registry_builds <= 1
    /\ clients_created <= 1
    /\ SameObject("registry")
    /\ SameObject("client")

\* The part of C12 that is about the client, and the whole of it on a host
\* with a single thread.
SingleWinnerOnOneThread ==
    /\ clients_created <= 1
    /\ SameObject("client")
    /\ ~lazy.threaded => lazy.registry_builds <= 1 /\ SameObject("registry")

(***************************************************************************)
(* Ties in the Path Matcher (SpecMatcher)                                  *)
(***************************************************************************)

\* The positions, in registry iteration order, of the full matches of the
\* path that tie with template t on literal matches and inferred parameters.
TiedWith(t) ==
    {i \in DOMAIN Registry :
        /\ FullMatch(Registry[i][1], matcher.concrete)
        /\ LiteralCount(Registry[i][1]) = LiteralCount(t)
        /\ ParamCount(Registry[i][1]) = ParamCount(t)}

\* C14 as stated: among full matches tied on literal matches and inferred
\* parameters, the matcher returns the one that comes first in registry
\* iteration order.
C14_FirstTiedWins ==
    (matcher.pc = "matched" /\ matcher.result # <<>>)
    => \A i \in TiedWith(matcher.result[1].template) :
          \E j \in 1..i : Registry[j][1] = matcher.result[1].template

\* What the sort does with a tie: the greatest template string wins.
GreatestTiedWins ==
    (matcher.pc = "matched" /\ matcher.result # <<>>)
    => \A i \in TiedWith(matcher.result[1].template) :
          \/ Registry[i][1] = matcher.result[1].template
          \/ StrLess(Registry[i][1], matcher.result[1].template)

(***************************************************************************)
(* Properties of the reference resolver (SpecSchema)                       *)
(***************************************************************************)

\* The node the segments lead to from node, or None when a segment is
\* missing or the node on the way is no mapping.
RECURSIVE Reached(_, _)
Reached(node, parts) ==
    IF parts = <<>> THEN node
    ELSE IF node.k # "dict" \/ ~HasKey(node.d, Head(parts)) THEN NoneVal
    ELSE Reached(Get(node.d, Head(parts)), Tail(parts))

\* The node a ref of the form "#/a/b/c" names in the document, else None.
Target(ref) ==
    IF ref.k = "str" /\ StartsWith(ref.s, "#/")
    THEN Reached(spec_file, Split(SubSeq(ref.s, 3, Len(ref.s)), "/"))
    ELSE NoneVal

ResolveRefOver == pc \in {"returned", "raised"} /\ "ref" \in DOMAIN result

\* C15 as stated: resolve_ref never raises; it returns the node the ref
\* names, or None when the ref is malformed, a segment is missing or a node
\* on the way is a sequence or a scalar.
C15_NeverRaises ==
    ResolveRefOver => ~result.raised /\ result.value = Target(result.ref)

\* What holds: it returns that node or None whenever it does not raise, and
\* it raises only when a node on the way is no mapping.
ReturnsTargetUnlessRaised ==
    ResolveRefOver
    => IF result.raised
       THEN \E n \in 1..Len(Split(result.ref.s, "/")) :
               Reached(spec_file, SubSeq(Split(SubSeq(result.ref.s, 3, Len(result.ref.s)), "/"),
                                         1, n)).k \notin {"dict", "none"}
       ELSE result.value = Target(result.ref)

(***************************************************************************)
(* Properties of path substitution (SpecFormat)                            *)
(***************************************************************************)

\* The position of the first "}" of s at or after i, or 0.
RECURSIVE ClosingBrace(_, _)
ClosingBrace(s, i) ==
    IF i > Len(s) THEN 0 ELSE IF Ch(s, i) = "}" THEN i ELSE ClosingBrace(s, i + 1)

\* The template from position i on, each {name} with a bound name replaced
\* by the string form of its value, in one pass over the template.
RECURSIVE SimultaneousFrom(_, _, _)
SimultaneousFrom(template, bound, i) ==
    IF i > Len(template) THEN ""
    ELSE LET j == ClosingBrace(template, i)
         IN  IF Ch(template, i) = "{" /\ j > 0 /\ HasKey(bound, SubSeq(template, i + 1, j - 1))
             THEN Str(Get(bound, SubSeq(template, i + 1, j - 1)))
                  \o SimultaneousFrom(template, bound, j + 1)
             ELSE Ch(template, i) \o SimultaneousFrom(template, bound, i + 1)

\* The request went out: validation has passed.
Requested == pc \in {"awaiting", "returned"} /\ requests # <<>>

\* C16 as stated: the real request path is the template with every
\* placeholder replaced at once by the string form of its own value.
C16_SimultaneousSubstitution ==
    Requested
    => requests[1].path = SimultaneousFrom(effective_path, effective_params, 1)

\* What holds: it is so when no bound value contains a brace.
SimultaneousWhenBraceFree ==
    (Requested /\ \A i \in DOMAIN effective_params :
                     ~Contains(Str(effective_params[i][2]), "{"))
    => requests[1].path = SimultaneousFrom(effective_path, effective_params, 1)

(***************************************************************************)
(* Termination of shallow simplification (SpecSchema)                      *)
(***************************************************************************)

\* C17 as stated: _simplify_schema returns on every document, cyclic
\* references included: its recursion never runs into the interpreter's
\* limit.
C17_Returns == simplify.status # "overflow"

\* What holds: the recursion runs into the limit only on a schema that is
\* reached again from itself.
OverflowOnlyOnCycles ==
    simplify.status = "overflow"
    => \E i, j \in DOMAIN simplify.stack :
          i < j /\ simplify.stack[i].schema = simplify.stack[j].schema

=============================================================================
